---- MODULE Spec2Model ----
(***************************************************************************)
(* Finder helpers of the Lex model-building service package                *)
(* (src/internal/service/sfn/generate.go, lines 29-202):                   *)
(*   FindBotVersionByName, FindSlotTypeVersionByName       single lookups  *)
(*   FindLatestBotVersionByName, FindLatestIntentVersionByName,            *)
(*   FindLatestSlotTypeVersionByName                  latest-version scans *)
(*                                                                         *)
(* One behaviour is one call of one of the five functions.  Strings that   *)
(* the code parses are sequences of one-character strings, so that         *)
(* strconv.Atoi and strconv.Itoa are computed character by character.      *)
(***************************************************************************)
EXTENDS Integers, Sequences, FiniteSets

\* ------------------------------------------------------------------ bounds
\* Pages one listing call delivers at most.
MaxPages == 2
\* Records one page holds at most.
MaxPageLen == 2

\* ----------------------------------------------------------------- strings
DigitChars == <<"0", "1", "2", "3", "4", "5", "6", "7", "8", "9">>

IsDigit(c) == \E i \in 1..Len(DigitChars) : DigitChars[i] = c

DigitVal(c) == (CHOOSE i \in 1..Len(DigitChars) : DigitChars[i] = c) - 1

NilErr == [type |-> "nil", cause |-> "none"]

ErrSyntax == [type |-> "strconv.NumError", cause |-> "ErrSyntax"]

\* The digits of s read as a base-10 number: n = n*10 + ch, left to right.
RECURSIVE DecVal(_)
DecVal(s) ==
    IF Len(s) = 0 THEN 0
    ELSE DecVal(SubSeq(s, 1, Len(s) - 1)) * 10 + DigitVal(s[Len(s)])

\* strconv.Atoi for strings shorter than 19 characters: an optional sign,
\* then one or more decimal digits; anything else is a syntax error with
\* value 0.  (Labels of 19 characters and more, the only ones that can give
\* a range error, are beyond the label set of this model.)
Atoi(s) ==
    IF Len(s) = 0 THEN [val |-> 0, err |-> ErrSyntax]
    ELSE LET signed == s[1] = "-" \/ s[1] = "+"
             body == IF signed THEN Tail(s) ELSE s
         IN  IF Len(body) < 1 THEN [val |-> 0, err |-> ErrSyntax]
             ELSE IF \E i \in 1..Len(body) : ~IsDigit(body[i])
                  THEN [val |-> 0, err |-> ErrSyntax]
                  ELSE [val |-> IF s[1] = "-" THEN 0 - DecVal(body) ELSE DecVal(body),
                        err |-> NilErr]

RECURSIVE FormatDec(_)
FormatDec(n) ==
    IF n < 10 THEN <<DigitChars[n + 1]>>
    ELSE FormatDec(n \div 10) \o <<DigitChars[(n % 10) + 1]>>

\* strconv.Itoa: the shortest decimal form, "-" first for a negative number.
Itoa(n) == IF n < 0 THEN <<"-">> \o FormatDec(0 - n) ELSE FormatDec(n)

\* A *string: nil, or a pointer to s.
NilString == [isNil |-> TRUE, s |-> <<>>]

String(s) == [isNil |-> FALSE, s |-> s]

\* aws.ToString: "" for a nil pointer.
ToString(p) == IF p.isNil THEN <<>> ELSE p.s

\* The sentinel labels ("$LATEST", as the functions' comments name it).
BotVersionLatest == <<"$", "L", "A", "T", "E", "S", "T">>

IntentVersionLatest == <<"$", "L", "A", "T", "E", "S", "T">>

SlotTypeVersionLatest == <<"$", "L", "A", "T", "E", "S", "T">>

\* ------------------------------------------------------------ SDK values
NotFoundException == [type |-> "NotFoundException", cause |-> "none"]

\* The same failure wrapped by the SDK's operation error.
WrappedNotFound == [type |-> "OperationError", cause |-> "NotFoundException"]

InternalFailure == [type |-> "OperationError", cause |-> "InternalFailureException"]

\* What an SDK call can fail with.
SdkErrors == {NotFoundException, WrappedNotFound, InternalFailure}

\* errs.IsA[*awstypes.NotFoundException]: the error, or an error it wraps,
\* is a NotFoundException; false for nil.
IsNotFoundException(e) == e.type = "NotFoundException" \/ e.cause = "NotFoundException"

\* &retry.NotFoundError{LastError: err, LastRequest: input}
NotFoundError(e, req) ==
    [type |-> "retry.NotFoundError", LastError |-> e, LastRequest |-> req]

\* tfresource.NewEmptyResultError(input)
NewEmptyResultError(req) == [type |-> "EmptyResultError", LastRequest |-> req]

NilOutput == [isNil |-> TRUE]

EmptyVersion == <<>>

\* ------------------------------------------------------------- the inputs
FindFns == {"FindBotVersionByName", "FindSlotTypeVersionByName"}

LatestFns == {"FindLatestBotVersionByName", "FindLatestIntentVersionByName",
              "FindLatestSlotTypeVersionByName"}

Fns == FindFns \cup LatestFns

Names == {"orders"}

\* The version argument of the single lookups; the latest-version functions
\* take none.
Versions == {"$LATEST", "7"}

NoVersion == "-"

\* The version labels a listing may carry: published versions, the sentinel,
\* a nil pointer, a malformed label, zero, a negative number, a signed
\* number and a number with leading zeros.
Labels == {String(<<"1">>), String(<<"2">>), String(<<"3">>), String(<<"5">>),
           String(BotVersionLatest), NilString, String(<<"a", "b", "c">>),
           String(<<"0">>), String(<<"-", "3">>), String(<<"+", "4">>),
           String(<<"0", "0", "7">>)}

\* ------------------------------------------------ the single-item lookups
\* Fault variant of FindBotVersionByName: the NotFoundException test is
\* missing, so a not-found failure passes through untranslated.
FindBotVersionByNamePassThrough(n, v, out, e) ==
    LET input == [Name |-> n, VersionOrAlias |-> v]
    IN  IF e # NilErr
        THEN [version |-> EmptyVersion, output |-> NilOutput, err |-> e]
        ELSE IF out = NilOutput
        THEN [version |-> EmptyVersion, output |-> NilOutput,
              err |-> NewEmptyResultError(input)]
        ELSE [version |-> EmptyVersion, output |-> out, err |-> NilErr]

\* FindBotVersionByName after conn.GetBot returned (output, err).
FindBotVersionByName(n, v, out, e) ==
    LET input == [Name |-> n, VersionOrAlias |-> v]
    IN  IF IsNotFoundException(e)
        THEN [version |-> EmptyVersion, output |-> NilOutput,
              err |-> NotFoundError(e, input)]
        ELSE IF e # NilErr
        THEN [version |-> EmptyVersion, output |-> NilOutput, err |-> e]
        ELSE IF out = NilOutput
        THEN [version |-> EmptyVersion, output |-> NilOutput,
              err |-> NewEmptyResultError(input)]
        ELSE [version |-> EmptyVersion, output |-> out, err |-> NilErr]

\* FindSlotTypeVersionByName after conn.GetSlotType returned (output, err).
FindSlotTypeVersionByName(n, v, out, e) ==
    LET input == [Name |-> n, Version |-> v]
    IN  IF IsNotFoundException(e)
        THEN [version |-> EmptyVersion, output |-> NilOutput,
              err |-> NotFoundError(e, input)]
        ELSE IF e # NilErr
        THEN [version |-> EmptyVersion, output |-> NilOutput, err |-> e]
        ELSE IF out = NilOutput
        THEN [version |-> EmptyVersion, output |-> NilOutput,
              err |-> NewEmptyResultError(input)]
        ELSE [version |-> EmptyVersion, output |-> out, err |-> NilErr]

\* ------------------------------------------- FindLatestBotVersionByName
\* Fault variant of BotNilPage: "return lastPage".
BotNilPageInverted(last) == last

\* The callback's answer for a nil page.
BotNilPage(last) == ~last

\* Fault variant of BotRecord: "err != nil || version > latestVersion", so
\* the zero a failed parse yields overwrites the running maximum.
BotRecordOverwrites(latest, p) ==
    LET version == ToString(p)
    IN  IF version = BotVersionLatest THEN latest
        ELSE LET r == Atoi(version)
             IN  IF r.err # NilErr \/ r.val > latest THEN r.val ELSE latest

\* Fault variant of BotRecord: the comparison is missing, the last parsed
\* version wins.
BotRecordLast(latest, p) ==
    LET version == ToString(p)
    IN  IF version = BotVersionLatest THEN latest
        ELSE LET r == Atoi(version)
             IN  IF r.err # NilErr THEN latest ELSE r.val

\* Fault variant of BotRecord: "version < latestVersion".
BotRecordMin(latest, p) ==
    LET version == ToString(p)
    IN  IF version = BotVersionLatest THEN latest
        ELSE LET r == Atoi(version)
             IN  IF r.err # NilErr THEN latest
                 ELSE IF r.val < latest THEN r.val ELSE latest

\* One iteration of the loop over page.Bots: the running maximum after the
\* record whose Version pointer is p.
BotRecord(latest, p) ==
    LET version == ToString(p)
    IN  IF version = BotVersionLatest THEN latest
        ELSE LET r == Atoi(version)
             IN  IF r.err # NilErr THEN latest
                 ELSE IF r.val > latest THEN r.val ELSE latest

\* Fault variant of BotPageDone: "return false", the scan stops after the
\* first page.
BotPageDoneStops(last) == FALSE

\* The callback's answer after the loop.
BotPageDone(last) == ~last

\* Fault variant of BotReturn: the "latestVersion == 0" test is missing.
BotReturnNoSentinel(latest, e) ==
    IF e # NilErr
    THEN [version |-> EmptyVersion, output |-> NilOutput, err |-> e]
    ELSE [version |-> Itoa(latest), output |-> NilOutput, err |-> NilErr]

\* Fault variant of BotReturn: the version found so far is returned along
\* with the paginator's error.
BotReturnKeepsVersion(latest, e) ==
    IF latest = 0
    THEN [version |-> IF e # NilErr THEN EmptyVersion ELSE BotVersionLatest,
          output |-> NilOutput, err |-> e]
    ELSE [version |-> Itoa(latest), output |-> NilOutput, err |-> e]

\* What the function returns once the paginator has returned e.
BotReturn(latest, e) ==
    IF e # NilErr
    THEN [version |-> EmptyVersion, output |-> NilOutput, err |-> e]
    ELSE IF latest = 0
    THEN [version |-> BotVersionLatest, output |-> NilOutput, err |-> NilErr]
    ELSE [version |-> Itoa(latest), output |-> NilOutput, err |-> NilErr]

\* ---------------------------------------- FindLatestIntentVersionByName
IntentNilPage(last) == ~last

\* Fault variant of IntentRecord: the comparison is missing.
IntentRecordLast(latest, p) ==
    LET version == ToString(p)
    IN  IF version = IntentVersionLatest THEN latest
        ELSE LET r == Atoi(version)
             IN  IF r.err # NilErr THEN latest ELSE r.val

IntentRecord(latest, p) ==
    LET version == ToString(p)
    IN  IF version = IntentVersionLatest THEN latest
        ELSE LET r == Atoi(version)
             IN  IF r.err # NilErr THEN latest
                 ELSE IF r.val > latest THEN r.val ELSE latest

IntentPageDone(last) == ~last

IntentReturn(latest, e) ==
    IF e # NilErr
    THEN [version |-> EmptyVersion, output |-> NilOutput, err |-> e]
    ELSE IF latest = 0
    THEN [version |-> IntentVersionLatest, output |-> NilOutput, err |-> NilErr]
    ELSE [version |-> Itoa(latest), output |-> NilOutput, err |-> NilErr]

\* -------------------------------------- FindLatestSlotTypeVersionByName
SlotTypeNilPage(last) == ~last

\* Fault variant of SlotTypeRecord: the comparison is missing.
SlotTypeRecordLast(latest, p) ==
    LET version == ToString(p)
    IN  IF version = SlotTypeVersionLatest THEN latest
        ELSE LET r == Atoi(version)
             IN  IF r.err # NilErr THEN latest ELSE r.val

SlotTypeRecord(latest, p) ==
    LET version == ToString(p)
    IN  IF version = SlotTypeVersionLatest THEN latest
        ELSE LET r == Atoi(version)
             IN  IF r.err # NilErr THEN latest
                 ELSE IF r.val > latest THEN r.val ELSE latest

SlotTypePageDone(last) == ~last

SlotTypeReturn(latest, e) ==
    IF e # NilErr
    THEN [version |-> EmptyVersion, output |-> NilOutput, err |-> e]
    ELSE IF latest = 0
    THEN [version |-> SlotTypeVersionLatest, output |-> NilOutput, err |-> NilErr]
    ELSE [version |-> Itoa(latest), output |-> NilOutput, err |-> NilErr]

\* ------------------------------------------------- the function called
NilPageOf(f, last) ==
    CASE f = "FindLatestBotVersionByName" -> BotNilPage(last)
      [] f = "FindLatestIntentVersionByName" -> IntentNilPage(last)
      [] f = "FindLatestSlotTypeVersionByName" -> SlotTypeNilPage(last)

RecordOf(f, latest, p) ==
    CASE f = "FindLatestBotVersionByName" -> BotRecord(latest, p)
      [] f = "FindLatestIntentVersionByName" -> IntentRecord(latest, p)
      [] f = "FindLatestSlotTypeVersionByName" -> SlotTypeRecord(latest, p)

PageDoneOf(f, last) ==
    CASE f = "FindLatestBotVersionByName" -> BotPageDone(last)
      [] f = "FindLatestIntentVersionByName" -> IntentPageDone(last)
      [] f = "FindLatestSlotTypeVersionByName" -> SlotTypePageDone(last)

ReturnOf(f, latest, e) ==
    CASE f = "FindLatestBotVersionByName" -> BotReturn(latest, e)
      [] f = "FindLatestIntentVersionByName" -> IntentReturn(latest, e)
      [] f = "FindLatestSlotTypeVersionByName" -> SlotTypeReturn(latest, e)

SentinelOf(f) ==
    CASE f = "FindLatestBotVersionByName" -> BotVersionLatest
      [] f = "FindLatestIntentVersionByName" -> IntentVersionLatest
      [] f = "FindLatestSlotTypeVersionByName" -> SlotTypeVersionLatest

\* ------------------------------------------------------------ the state
VARIABLES
    fn,             \* the function called
    name,           \* its name argument
    version,        \* its version argument (single lookups only)
    pc,             \* "call": before the SDK call of a single lookup;
                    \* "fetch": the paginator is about to fetch a page;
                    \* "scan": the callback is in its loop over the page;
                    \* "done": the function has returned
    pageNo,         \* pages delivered to the callback so far
    pageNil,        \* the page delivered last was nil
    lastPage,       \* the lastPage flag of the page delivered last
    idx,            \* records of that page the loop has gone through
    latestVersion,  \* the function's local latestVersion
    cont,           \* what the callback answered last
    output,         \* the output of the SDK call of a single lookup
    err,            \* the error of the SDK call or of the paginator
    result,         \* what the function returned
    seen,           \* history: the Version pointers the loop has gone through
    entry,          \* history: latestVersion when the page delivered last arrived
    cleanLatest,    \* history: the running maximum of the same listing with
                    \* its malformed records taken out
    twin            \* history: the running maximum each of the three
                    \* latest-version functions computes on this listing

vars == <<fn, name, version, pc, pageNo, pageNil, lastPage, idx, latestVersion,
          cont, output, err, result, seen, entry, cleanLatest, twin>>

NoResult == [version |-> EmptyVersion, output |-> NilOutput, err |-> NilErr]

\* A record whose label is neither the function's sentinel nor an integer.
Malformed(f, p) == ToString(p) # SentinelOf(f) /\ Atoi(ToString(p)).err # NilErr

\* The record p of a listing of kind f as a listing of kind k carries it: the
\* sentinel of f becomes the sentinel of k.
Substitute(p, f, k) ==
    IF ToString(p) = SentinelOf(f) /\ ~p.isNil THEN String(SentinelOf(k)) ELSE p

\* The paginator stops after a page when the callback answered false or the
\* page was the last one.
PagerStops(c, last) == ~c \/ last

Init ==
    /\ fn \in Fns
    /\ name \in Names
    /\ version \in (IF fn \in FindFns THEN Versions ELSE {NoVersion})
    /\ pc = (IF fn \in FindFns THEN "call" ELSE "fetch")
    /\ pageNo = 0
    /\ pageNil = FALSE
    /\ lastPage = FALSE
    /\ idx = 0
    /\ latestVersion = 0
    /\ cont = TRUE
    /\ output = NilOutput
    /\ err = NilErr
    /\ result = NoResult
    /\ seen = {}
    /\ entry = 0
    /\ cleanLatest = 0
    /\ twin = [k \in LatestFns |-> 0]

\* conn.GetBot returns (out, e) and FindBotVersionByName returns.
GetBot(out, e) ==
    /\ pc = "call"
    /\ fn = "FindBotVersionByName"
    /\ output' = out
    /\ err' = e
    /\ result' = FindBotVersionByName(name, version, out, e)
    /\ pc' = "done"
    /\ UNCHANGED <<fn, name, version, pageNo, pageNil, lastPage, idx,
                   latestVersion, cont, seen, entry, cleanLatest, twin>>

\* conn.GetSlotType returns (out, e) and FindSlotTypeVersionByName returns.
GetSlotType(out, e) ==
    /\ pc = "call"
    /\ fn = "FindSlotTypeVersionByName"
    /\ output' = out
    /\ err' = e
    /\ result' = FindSlotTypeVersionByName(name, version, out, e)
    /\ pc' = "done"
    /\ UNCHANGED <<fn, name, version, pageNo, pageNil, lastPage, idx,
                   latestVersion, cont, seen, entry, cleanLatest, twin>>

\* The fetch of the next page fails with e: the paginator returns e and the
\* function returns.
FetchFails(e) ==
    /\ pc = "fetch"
    /\ err' = e
    /\ result' = ReturnOf(fn, latestVersion, e)
    /\ pc' = "done"
    /\ UNCHANGED <<fn, name, version, pageNo, pageNil, lastPage, idx,
                   latestVersion, cont, output, seen, entry, cleanLatest, twin>>

\* The callback has answered c for the page flagged last: the paginator
\* fetches on, or returns nil and the function returns.
AfterCallback(c, last) ==
    IF PagerStops(c, last)
    THEN /\ pc' = "done"
         /\ result' = ReturnOf(fn, latestVersion, NilErr)
    ELSE /\ pc' = "fetch"
         /\ result' = result

\* The paginator hands the callback a nil page.
FetchNilPage(last) ==
    /\ pc = "fetch"
    /\ pageNo < MaxPages
    /\ pageNo' = pageNo + 1
    /\ pageNil' = TRUE
    /\ lastPage' = last
    /\ idx' = 0
    /\ entry' = latestVersion
    /\ cont' = NilPageOf(fn, last)
    /\ AfterCallback(cont', last)
    /\ UNCHANGED <<fn, name, version, latestVersion, output, err, seen,
                   cleanLatest, twin>>

\* The paginator hands the callback a page that is not nil; the loop starts.
FetchPage(last) ==
    /\ pc = "fetch"
    /\ pageNo < MaxPages
    /\ pageNo' = pageNo + 1
    /\ pageNil' = FALSE
    /\ lastPage' = last
    /\ idx' = 0
    /\ entry' = latestVersion
    /\ pc' = "scan"
    /\ UNCHANGED <<fn, name, version, latestVersion, cont, output, err, result,
                   seen, cleanLatest, twin>>

\* One iteration of the loop, on a record whose Version pointer is p.
ScanRecord(p) ==
    /\ pc = "scan"
    /\ idx < MaxPageLen
    /\ idx' = idx + 1
    /\ latestVersion' = RecordOf(fn, latestVersion, p)
    /\ seen' = seen \cup {p}
    /\ cleanLatest' = (IF Malformed(fn, p) THEN cleanLatest
                       ELSE RecordOf(fn, cleanLatest, p))
    /\ twin' = [k \in LatestFns |-> RecordOf(k, twin[k], Substitute(p, fn, k))]
    /\ UNCHANGED <<fn, name, version, pc, pageNo, pageNil, lastPage, cont,
                   output, err, result, entry>>

\* The loop is through the page's records and the callback answers.
PageDone ==
    /\ pc = "scan"
    /\ cont' = PageDoneOf(fn, lastPage)
    /\ AfterCallback(cont', lastPage)
    /\ UNCHANGED <<fn, name, version, pageNo, pageNil, lastPage, idx,
                   latestVersion, output, err, seen, entry, cleanLatest, twin>>

Outputs == {NilOutput, [isNil |-> FALSE, name |-> name, version |-> version]}

Next ==
    \/ \E out \in Outputs, e \in SdkErrors \cup {NilErr} : GetBot(out, e)
    \/ \E out \in Outputs, e \in SdkErrors \cup {NilErr} : GetSlotType(out, e)
    \/ \E e \in SdkErrors : FetchFails(e)
    \/ \E last \in BOOLEAN : FetchNilPage(last)
    \/ \E last \in BOOLEAN : FetchPage(last)
    \/ \E p \in Labels : ScanRecord(p)
    \/ PageDone

Spec == Init /\ [][Next]_vars

\* ============================================================ properties
\* A latest-version function has returned.
LatestDone == fn \in LatestFns /\ pc = "done"

\* ... and the listing had failed on no page.
LatestOk == LatestDone /\ err = NilErr

\* The integers the labels gone through parse as (the sentinel left out).
Parsed ==
    {Atoi(ToString(p)).val :
        p \in {q \in seen : /\ ToString(q) # SentinelOf(fn)
                            /\ Atoi(ToString(q)).err = NilErr}}

Positive == {v \in Parsed : v > 0}

SetMax(S) == CHOOSE m \in S : \A x \in S : x <= m

\* The greatest integer above zero among them, zero if there is none.
MaxPositive == LET P == Positive IN IF P = {} THEN 0 ELSE SetMax(P)

\* The version string that stands for it.
Resolved == LET m == MaxPositive IN IF m = 0 THEN SentinelOf(fn) ELSE Itoa(m)

\* A non-negative decimal integer string with no leading zeros.
IsCanonicalDecimal(s) ==
    /\ Len(s) >= 1
    /\ \A i \in 1..Len(s) : IsDigit(s[i])
    /\ (Len(s) > 1 => s[1] # "0")

\* ---------------------------------------------------------------- C1
\* C1, as stated: after an error-free listing the function returns the
\* sentinel with a nil error if no label gone through parses as an integer,
\* and otherwise the decimal string of the maximum integer parsed.
C1_AsStated ==
    LatestOk =>
        /\ result.err = NilErr
        /\ result.version = (IF Parsed = {} THEN SentinelOf(fn)
                             ELSE Itoa(SetMax(Parsed)))

\* C1, amended: after an error-free listing the function returns the
\* sentinel with a nil error if no label gone through parses as an integer
\* greater than zero, and otherwise the decimal string of the maximum
\* integer parsed.
C1_LatestIsMaxPositive ==
    LatestOk =>
        /\ result.err = NilErr
        /\ result.version = Resolved

\* The labels "1", "3", "2" and "0" were gone through and "3" was returned.
C1_Witness ==
    /\ LatestOk
    /\ seen = {String(<<"1">>), String(<<"3">>), String(<<"2">>), String(<<"0">>)}
    /\ result.version = <<"3">>

\* ---------------------------------------------------------------- C2
\* C2: when the listing fails on a page, the function returns that error
\* and the empty version string, whatever was seen before; no function
\* returns a version string together with an error.
C2_ErrorAlone ==
    /\ (LatestDone /\ err # NilErr =>
            result.err = err /\ result.version = EmptyVersion)
    /\ (pc = "done" => (result.err = NilErr \/ result.version = EmptyVersion))

\* The listing failed after a page on which a numeric version was seen.
C2_Witness ==
    /\ LatestDone
    /\ err = InternalFailure
    /\ pageNo >= 1
    /\ latestVersion > 0
    /\ result.version = EmptyVersion

\* ---------------------------------------------------------------- C3
\* C3: the callback answers "continue" exactly for the pages not flagged
\* last, the paginator fetches on only after such a page, and the function
\* returns without error only after the page flagged last, with the maximum
\* over the records of all pages, the non-final ones included.
C3_Exhaustive ==
    fn \in LatestFns =>
        /\ (pageNo > 0 /\ pc # "scan" => cont = ~lastPage)
        /\ (pc = "fetch" /\ pageNo > 0 => ~lastPage)
        /\ (LatestOk =>
                /\ lastPage
                /\ latestVersion >= entry
                /\ \A v \in Parsed : latestVersion >= v
                /\ result = ReturnOf(fn, latestVersion, NilErr))

\* The maximum was on a page before the last, the last page held records,
\* and the maximum was returned.
C3_Witness ==
    /\ LatestOk
    /\ pageNo >= 2
    /\ ~pageNil
    /\ idx > 0
    /\ entry = 5
    /\ result.version = <<"5">>

\* ---------------------------------------------------------------- C4
\* C4: a malformed label changes nothing: the running maximum, and the
\* result of an error-free listing, are those of the same listing with the
\* malformed records taken out, and the error is nil.
C4_MalformedSkipped ==
    fn \in LatestFns =>
        /\ latestVersion = cleanLatest
        /\ (LatestOk =>
                /\ result.err = NilErr
                /\ result = ReturnOf(fn, cleanLatest, NilErr))

\* The labels "5", "abc" and "2" were gone through and "5" was returned.
C4_Witness ==
    /\ LatestOk
    /\ seen = {String(<<"5">>), String(<<"a", "b", "c">>), String(<<"2">>)}
    /\ result.version = <<"5">>
    /\ result.err = NilErr

\* ---------------------------------------------------------------- C5
\* C5: a numeric version string returned encodes an integer that is at
\* least every integer a label gone through parses as.
C5_NeverLower ==
    LatestOk /\ result.version # SentinelOf(fn) =>
        /\ Atoi(result.version).err = NilErr
        /\ \A v \in Parsed : Atoi(result.version).val >= v

\* A numeric version was returned for a listing with several numeric
\* labels, a negative one among them.
C5_Witness ==
    /\ LatestOk
    /\ result.version = <<"2">>
    /\ {String(<<"1">>), String(<<"2">>), String(<<"-", "3">>)} \subseteq seen

\* ---------------------------------------------------------------- C6
\* C6: a version string returned without error is the sentinel or a
\* non-negative decimal integer string with no leading zeros.
C6_WellFormed ==
    LatestOk =>
        \/ result.version = SentinelOf(fn)
        \/ IsCanonicalDecimal(result.version)

\* A label with leading zeros and a signed label were gone through.
C6_Witness ==
    /\ LatestOk
    /\ {String(<<"0", "0", "7">>), String(<<"+", "4">>), String(<<"-", "3">>)}
           \subseteq seen
    /\ result.version = <<"7">>

\* ---------------------------------------------------------------- C7
\* C7: a single lookup returns an output or an error, never both and never
\* neither; a NotFoundException becomes a retry.NotFoundError holding the
\* error and the request, any other error passes through, a nil output
\* without error becomes an empty-result error; a latest-version function
\* returns a not-found failure of the listing unchanged.
C7_NotFoundTranslation ==
    /\ (pc = "done" /\ fn \in FindFns =>
            LET input == IF fn = "FindBotVersionByName"
                         THEN [Name |-> name, VersionOrAlias |-> version]
                         ELSE [Name |-> name, Version |-> version]
            IN  /\ (result.output = NilOutput) # (result.err = NilErr)
                /\ (IsNotFoundException(err) =>
                        /\ result.err.type = "retry.NotFoundError"
                        /\ result.err.LastError = err
                        /\ result.err.LastRequest = input)
                /\ (err # NilErr /\ ~IsNotFoundException(err) => result.err = err)
                /\ (err = NilErr /\ output = NilOutput =>
                        result.err = NewEmptyResultError(input))
                /\ (err = NilErr /\ output # NilOutput =>
                        result.output = output /\ result.err = NilErr))
    /\ (LatestDone /\ IsNotFoundException(err) => result.err = err)

\* GetBot failed with a wrapped NotFoundException while it also gave an
\* output.
C7_Witness ==
    /\ pc = "done"
    /\ fn = "FindBotVersionByName"
    /\ err = WrappedNotFound
    /\ output # NilOutput
    /\ result.err.type = "retry.NotFoundError"

\* ---------------------------------------------------------------- C8
\* C8: after a nil page or a page without records the running maximum is
\* what it was when the page arrived, the callback has answered "continue"
\* exactly if the page was not flagged last, and if it was, the function has
\* returned, without error, the result for the records gone through so far.
C8_EmptyPage ==
    fn \in LatestFns /\ pageNo > 0 /\ pc # "scan" /\ (pageNil \/ idx = 0) =>
        /\ latestVersion = entry
        /\ cont = ~lastPage
        /\ (lastPage =>
                /\ pc = "done"
                /\ result.err = NilErr
                /\ result.version = Resolved)
        /\ (~lastPage /\ err = NilErr => pc = "fetch")

\* A nil page flagged last ended a listing in which a version had been seen.
C8_Witness ==
    /\ LatestOk
    /\ pageNil
    /\ lastPage
    /\ pageNo >= 2
    /\ result.version = <<"3">>

\* ---------------------------------------------------------------- C9
\* C9: on the same listing, each with its own sentinel in the place of the
\* others', the three latest-version functions keep the same running
\* maximum, give the same callback answers and return the same result.
C9_SameResolution ==
    fn \in LatestFns =>
        \A k \in LatestFns :
            /\ twin[k] = latestVersion
            /\ (pageNo > 0 /\ pc # "scan" =>
                    cont = (IF pageNil THEN NilPageOf(k, lastPage)
                            ELSE PageDoneOf(k, lastPage)))
            /\ (pc = "done" =>
                    LET r == ReturnOf(k, twin[k], err)
                    IN  /\ r.err = result.err
                        /\ (r.version = SentinelOf(k)) = (result.version = SentinelOf(fn))
                        /\ (r.version # SentinelOf(k) => r.version = result.version))

\* A listing with the sentinel and numeric labels was resolved.
C9_Witness ==
    /\ LatestOk
    /\ fn = "FindLatestSlotTypeVersionByName"
    /\ String(SlotTypeVersionLatest) \in seen
    /\ result.version = <<"2">>

\* ---------------------------------------------------------------- C10
\* C10: the running maximum is at every point the greatest positive integer
\* among the labels gone through, whatever their order, repetition and
\* division into pages (zero if there is none), it is never negative, no
\* step lowers it, and the result of an error-free listing is determined by
\* the set of labels gone through.
C10_OrderFree ==
    /\ [](fn \in LatestFns =>
            /\ latestVersion >= 0
            /\ latestVersion = MaxPositive
            /\ (LatestOk => result.version = Resolved))
    /\ [][latestVersion' >= latestVersion]_vars

\* The maximum "3" came on the first page and both records of the second
\* page repeat labels among "3" and "1".
C10_Witness ==
    /\ LatestOk
    /\ pageNo = 2
    /\ entry = 3
    /\ idx = 2
    /\ seen = {String(<<"3">>), String(<<"1">>)}
    /\ result.version = <<"3">>

====
